---- MODULE Spec2Model ----
(***************************************************************************)
(* Model of the traktor package of djlibgo: the catalog parser             *)
(* (ParseCollection, ParseCollectionFromPath), the track normaliser        *)
(* (convertEntryToTrack, buildPrimaryKey, buildFilePath), the playlist     *)
(* tree extractor (extractPlaylists), the index queries and the            *)
(* package-level lazy loader (tc, tcLoaded).                                *)
(*                                                                         *)
(* Go strings are sequences of one-character strings, so that              *)
(* concatenation, prefixes and replacement are computed, not assumed.      *)
(***************************************************************************)
EXTENDS Integers, Sequences, FiniteSets, TLC

VARIABLES
    home,        \* os.UserHomeDir succeeds
    fs,          \* state of the catalog file at each path
    doc,         \* the document a well-formed catalog file decodes to
    out,         \* what the last direct parse call returned: [coll, err]
    query,       \* the last index query and its result
    tc,          \* package variable tc (*TraktorCollection), None when nil
    tcLoaded,    \* package variable tcLoaded
    parseCount,  \* number of ParseCollection executions so far
    calls,       \* number of loader-facing calls made so far
    ret,         \* what the last loader-facing call returned
    alive,       \* FALSE once a panic was left unrecovered
    pc,          \* position of every concurrent caller
    seen,        \* what every concurrent caller read or computed
    loc,         \* input of the pure functions: a Location
    loc2,        \* a second Location
    res          \* the results of the pure functions

vars == <<home, fs, doc, out, query, tc, tcLoaded, parseCount, calls,
          ret, alive, pc, seen, loc, loc2, res>>

envVars    == <<home, fs, doc>>
parseVars  == <<out, query>>
loaderVars == <<tc, tcLoaded, parseCount, calls, ret, alive>>
concVars   == <<pc, seen>>
pureVars   == <<loc, loc2, res>>

\* a nil pointer is the empty sequence, a non-nil one the one-element sequence
\* of what it points to; a pointer into a slice is the element's position and
\* NilIdx when nil
None    == <<>>
Some(x) == <<x>>
NilIdx  == 0

-----------------------------------------------------------------------------
(* Strings *)

Sep == <<"/">>

\* strings.HasPrefix
HasPrefix(s, p) == Len(p) <= Len(s) /\ SubSeq(s, 1, Len(p)) = p

\* strings.TrimPrefix
TrimPrefix(s, p) == IF HasPrefix(s, p) THEN SubSeq(s, Len(p) + 1, Len(s)) ELSE s

\* strings.ReplaceAll for a non-empty old: non-overlapping, left to right
RECURSIVE ReplaceAll(_, _, _)
ReplaceAll(s, old, new) ==
    IF s = <<>> THEN <<>>
    ELSE IF HasPrefix(s, old)
         THEN new \o ReplaceAll(SubSeq(s, Len(old) + 1, Len(s)), old, new)
         ELSE <<Head(s)>> \o ReplaceAll(Tail(s), old, new)

\* strings.Join(elems, "/")
RECURSIVE JoinSep(_)
JoinSep(elems) ==
    IF elems = <<>> THEN <<>>
    ELSE IF Len(elems) = 1 THEN elems[1]
    ELSE elems[1] \o Sep \o JoinSep(Tail(elems))

\* the loop of filepath.Clean (unix): r is the read position, o the output
\* buffer, dotdot the length of o below which ".." may not backtrack
RECURSIVE CleanLoop(_, _, _, _, _)
CleanLoop(p, r, o, dotdot, rooted) ==
    LET n == Len(p) IN
    IF r > n THEN o
    ELSE IF p[r] = "/" THEN CleanLoop(p, r + 1, o, dotdot, rooted)
    ELSE IF p[r] = "." /\ (r = n \/ p[r + 1] = "/")
         THEN CleanLoop(p, r + 1, o, dotdot, rooted)
    ELSE IF p[r] = "." /\ p[r + 1] = "." /\ (r + 1 = n \/ p[r + 2] = "/")
         THEN IF Len(o) > dotdot
              THEN LET cut == CHOOSE w \in dotdot..(Len(o) - 1) :
                                /\ (w > dotdot => o[w + 1] = "/")
                                /\ \A v \in (w + 1)..(Len(o) - 1) : o[v + 1] # "/"
                   IN CleanLoop(p, r + 2, SubSeq(o, 1, cut), dotdot, rooted)
              ELSE IF ~rooted
                   THEN LET o2 == (IF Len(o) > 0 THEN o \o Sep ELSE o) \o <<".", ".">>
                        IN CleanLoop(p, r + 2, o2, Len(o2), rooted)
                   ELSE CleanLoop(p, r + 2, o, dotdot, rooted)
    ELSE LET o1  == IF (rooted /\ Len(o) # 1) \/ (~rooted /\ Len(o) # 0)
                    THEN o \o Sep ELSE o
             end == CHOOSE e \in r..n :
                        /\ \A i \in r..e : p[i] # "/"
                        /\ (e = n \/ p[e + 1] = "/")
         IN CleanLoop(p, end + 1, o1 \o SubSeq(p, r, end), dotdot, rooted)

\* filepath.Clean (unix)
Clean(p) ==
    IF p = <<>> THEN <<".">>
    ELSE LET rooted == p[1] = "/"
             o == IF rooted THEN CleanLoop(p, 2, Sep, 1, TRUE)
                            ELSE CleanLoop(p, 1, <<>>, 0, FALSE)
         IN IF o = <<>> THEN <<".">> ELSE o

\* filepath.Join (unix): from the first non-empty element on, joined and cleaned
RECURSIVE Join(_)
Join(elems) ==
    IF elems = <<>> THEN <<>>
    ELSE IF elems[1] # <<>> THEN Clean(JoinSep(elems))
    ELSE Join(Tail(elems))

-----------------------------------------------------------------------------
(* Track normaliser *)

MacintoshHD == <<"M", "a", "c", "i", "n", "t", "o", "s", "h", " ", "H", "D">>
Colon       == <<":">>
Volumes     == <<"/", "V", "o", "l", "u", "m", "e", "s">>

buildPrimaryKey_delim(l) == l.Volume \o <<"/", ":">> \o l.Dir \o <<"/", ":">> \o l.File

buildPrimaryKey(l) == l.Volume \o l.Dir \o l.File

buildFilePath_noroot(l) ==
    LET dir0 == ReplaceAll(l.Dir, <<"/", ":">>, Sep)
        dir  == TrimPrefix(dir0, Sep)
    IN IF l.Volume # <<>>
       THEN Join(<<Volumes, l.Volume, dir, l.File>>)
       ELSE Join(<<dir, l.File>>)

buildFilePath(l) ==
    LET dir0 == ReplaceAll(l.Dir, <<"/", ":">>, Sep)
        dir  == TrimPrefix(dir0, Sep)
    IN IF l.Volume # <<>>
       THEN IF l.Volume = MacintoshHD \/ l.Volume = Colon
            THEN Join(<<Sep, dir, l.File>>)
            ELSE Join(<<Volumes, l.Volume, dir, l.File>>)
       ELSE Join(<<dir, l.File>>)

\* convertEntryToTrack, with the fields the index and its queries read
convertEntryToTrack(entry) ==
    LET primaryKey == buildPrimaryKey(entry.Location)
        filePath   == buildFilePath(entry.Location)
    IN [Title      |-> entry.Title,
        BPM        |-> entry.Bpm,
        FilePath   |-> filePath,
        FileName   |-> entry.Location.File,
        Volume     |-> entry.Location.Volume,
        PrimaryKey |-> primaryKey]

-----------------------------------------------------------------------------
(* Playlist tree extractor *)

RootName == <<"$", "R", "O", "O", "T">>

\* variant: an unresolved key is dropped from the key list too
RECURSIVE resolveItems_dropKey(_, _, _)
resolveItems_dropKey(items, playlist, trackMap) ==
    IF items = <<>> THEN playlist
    ELSE LET key == Head(items).PrimaryKey.Key
             p2  == IF key \in DOMAIN trackMap
                    THEN [playlist EXCEPT !.TrackKeys = Append(@, key),
                                          !.Tracks = Append(@, trackMap[key])]
                    ELSE playlist
         IN resolveItems_dropKey(Tail(items), p2, trackMap)

\* the item loop of extractPlaylists: the key is always recorded, the track
\* (a pointer into collection.Tracks, here its position) only when the map has it
RECURSIVE resolveItems(_, _, _)
resolveItems(items, playlist, trackMap) ==
    IF items = <<>> THEN playlist
    ELSE LET key == Head(items).PrimaryKey.Key
             p1  == [playlist EXCEPT !.TrackKeys = Append(@, key)]
             p2  == IF key \in DOMAIN trackMap
                    THEN [p1 EXCEPT !.Tracks = Append(@, trackMap[key])]
                    ELSE p1
         IN resolveItems(Tail(items), p2, trackMap)

RECURSIVE extractPlaylists(_, _, _)
RECURSIVE extractSubnodes(_, _, _)

\* variant: later siblings first
extractSubnodes_reversed(subnodes, currentPath, trackMap) ==
    IF subnodes = <<>> THEN <<>>
    ELSE extractSubnodes(Tail(subnodes), currentPath, trackMap)
         \o extractPlaylists(Head(subnodes), currentPath, trackMap)

\* the subnode loop of extractPlaylists
extractSubnodes(subnodes, currentPath, trackMap) ==
    IF subnodes = <<>> THEN <<>>
    ELSE extractPlaylists(Head(subnodes), currentPath, trackMap)
         \o extractSubnodes(Tail(subnodes), currentPath, trackMap)

\* variant: every node adds its name to the path, the root marker too
extractPlaylists_anyName(node, parentPath, trackMap) ==
    LET currentPath ==
            IF parentPath = <<>> THEN node.Name
            ELSE parentPath \o Sep \o node.Name
        own ==
            IF node.Type = "PLAYLIST" /\ node.Playlist # None
            THEN <<resolveItems(node.Playlist[1].Items,
                                [Name |-> node.Name, Path |-> currentPath,
                                 TrackKeys |-> <<>>, Tracks |-> <<>>],
                                trackMap)>>
            ELSE <<>>
    IN own \o extractSubnodes(node.Subnodes, currentPath, trackMap)

\* variant: a node that yields a playlist is not descended into
extractPlaylists_exclusive(node, parentPath, trackMap) ==
    LET currentPath ==
            IF node.Name # <<>> /\ node.Name # RootName
            THEN IF parentPath = <<>> THEN node.Name
                 ELSE parentPath \o Sep \o node.Name
            ELSE parentPath
    IN IF node.Type = "PLAYLIST" /\ node.Playlist # None
       THEN <<resolveItems(node.Playlist[1].Items,
                           [Name |-> node.Name, Path |-> currentPath,
                            TrackKeys |-> <<>>, Tracks |-> <<>>],
                           trackMap)>>
       ELSE extractSubnodes(node.Subnodes, currentPath, trackMap)

extractPlaylists(node, parentPath, trackMap) ==
    LET currentPath ==
            IF node.Name # <<>> /\ node.Name # RootName
            THEN IF parentPath = <<>> THEN node.Name
                 ELSE parentPath \o Sep \o node.Name
            ELSE parentPath
        own ==
            IF node.Type = "PLAYLIST" /\ node.Playlist # None
            THEN <<resolveItems(node.Playlist[1].Items,
                                [Name |-> node.Name, Path |-> currentPath,
                                 TrackKeys |-> <<>>, Tracks |-> <<>>],
                                trackMap)>>
            ELSE <<>>
    IN own \o extractSubnodes(node.Subnodes, currentPath, trackMap)

-----------------------------------------------------------------------------
(* Parser *)

FileStates == {"absent", "unreadable", "malformed", "ok"}

Versions == <<"Traktor 4.4.1", "Traktor 4.4.0">>

\* filepath.Join(homeDir, "Documents", "Native Instruments", version,
\* "collection.nml"): one path per version folder
CandidatePath(version) == version

OtherPath == "other.nml"

Paths == {CandidatePath(Versions[i]) : i \in DOMAIN Versions} \cup {OtherPath}

NoPath == ""

\* the candidate loop of collectionLocation: os.Stat succeeds on a file that exists
RECURSIVE firstExisting(_)
firstExisting(versions) ==
    IF versions = <<>> THEN NoPath
    ELSE IF fs[CandidatePath(Head(versions))] # "absent"
         THEN CandidatePath(Head(versions))
         ELSE firstExisting(Tail(versions))

collectionLocation == IF ~home THEN NoPath ELSE firstExisting(Versions)

IsAvailable == collectionLocation # NoPath

\* variant: an entry whose key is already indexed is skipped
RECURSIVE parseTracks_dedupe(_, _)
parseTracks_dedupe(entries, collection) ==
    IF entries = <<>> THEN collection
    ELSE LET track  == convertEntryToTrack(Head(entries))
             tracks == Append(collection.Tracks, track)
             tm     == collection.trackMap
             tmap   == [k \in DOMAIN tm \cup {track.PrimaryKey} |->
                           IF k = track.PrimaryKey THEN Len(tracks) ELSE tm[k]]
         IN IF track.PrimaryKey \in DOMAIN tm
            THEN parseTracks_dedupe(Tail(entries), collection)
            ELSE parseTracks_dedupe(Tail(entries),
                        [collection EXCEPT !.Tracks = tracks, !.trackMap = tmap])

\* variant: the first entry with a key keeps the map's entry
RECURSIVE parseTracks_firstWins(_, _)
parseTracks_firstWins(entries, collection) ==
    IF entries = <<>> THEN collection
    ELSE LET track  == convertEntryToTrack(Head(entries))
             tracks == Append(collection.Tracks, track)
             tm     == collection.trackMap
             tmap   == [k \in DOMAIN tm \cup {track.PrimaryKey} |->
                           IF k \in DOMAIN tm THEN tm[k] ELSE Len(tracks)]
         IN parseTracks_firstWins(Tail(entries),
                        [collection EXCEPT !.Tracks = tracks, !.trackMap = tmap])

\* the track loop of ParseCollectionFromPath: append the track, then point the
\* map's entry for its key at the appended element
RECURSIVE parseTracks(_, _)
parseTracks(entries, collection) ==
    IF entries = <<>> THEN collection
    ELSE LET track  == convertEntryToTrack(Head(entries))
             tracks == Append(collection.Tracks, track)
             tm     == collection.trackMap
             tmap   == [k \in DOMAIN tm \cup {track.PrimaryKey} |->
                           IF k = track.PrimaryKey THEN Len(tracks) ELSE tm[k]]
         IN parseTracks(Tail(entries),
                        [collection EXCEPT !.Tracks = tracks, !.trackMap = tmap])

\* ParseCollectionFromPath; opened records that os.Open was called
ParseCollectionFromPath(path) ==
    IF fs[path] \in {"absent", "unreadable"}
    THEN [coll |-> None, err |-> "IOError", opened |-> TRUE]
    ELSE IF fs[path] = "malformed"
    THEN [coll |-> None, err |-> "DecodeError", opened |-> TRUE]
    ELSE LET nml == doc
             c0  == [Version |-> nml.Version, Tracks |-> <<>>,
                     Playlists |-> <<>>, trackMap |-> <<>>]
             c1  == parseTracks(nml.Collection.Tracks, c0)
             c2  == [c1 EXCEPT !.Playlists =
                        extractPlaylists(nml.Playlists.Node, <<>>, c1.trackMap)]
         IN [coll |-> Some(c2), err |-> "nil", opened |-> TRUE]

\* variant: with no candidate found, the first candidate path is parsed anyway
ParseCollection_noCheck == ParseCollectionFromPath(CandidatePath(Versions[1]))

ParseCollection ==
    LET location == collectionLocation
    IN IF location = NoPath
       THEN [coll |-> None, err |-> "ErrNotExist", opened |-> FALSE]
       ELSE ParseCollectionFromPath(location)

-----------------------------------------------------------------------------
(* Index queries *)

GetTrackByKey(c, key) ==
    IF key \in DOMAIN c.trackMap THEN c.trackMap[key] ELSE NilIdx

\* variant: the last match wins
RECURSIVE playlistByNameFrom_last(_, _, _)
playlistByNameFrom_last(c, i, name) ==
    IF i > Len(c.Playlists) THEN NilIdx
    ELSE LET later == playlistByNameFrom_last(c, i + 1, name)
         IN IF later # NilIdx THEN later
            ELSE IF c.Playlists[i].Name = name THEN i ELSE NilIdx

\* the loop of GetPlaylistByName from position i on
RECURSIVE playlistByNameFrom(_, _, _)
playlistByNameFrom(c, i, name) ==
    IF i > Len(c.Playlists) THEN NilIdx
    ELSE IF c.Playlists[i].Name = name THEN i
    ELSE playlistByNameFrom(c, i + 1, name)

GetPlaylistByName(c, name) == playlistByNameFrom(c, 1, name)

\* the loop of GetPlaylistByPath from position i on
RECURSIVE playlistByPathFrom(_, _, _)
playlistByPathFrom(c, i, path) ==
    IF i > Len(c.Playlists) THEN NilIdx
    ELSE IF c.Playlists[i].Path = path THEN i
    ELSE playlistByPathFrom(c, i + 1, path)

GetPlaylistByPath(c, path) == playlistByPathFrom(c, 1, path)

-----------------------------------------------------------------------------
(* Catalog documents the parser is run on *)

MaxEntries == 2

Loc(v, d, f) == [Volume |-> v, Dir |-> d, File |-> f]

\* the first two entries are different files whose keys coincide ("ab")
EntryPool ==
    { [Location |-> Loc(<<"a">>, <<>>, <<"b">>), Title |-> "t1", Bpm |-> 120],
      [Location |-> Loc(<<>>, <<"a">>, <<"b">>), Title |-> "t2", Bpm |-> 128],
      [Location |-> Loc(<<"a">>, <<"/", ":", "d">>, <<"c">>), Title |-> "t3", Bpm |-> 128] }

RECURSIVE SeqsUpTo(_, _)
SeqsUpTo(S, n) ==
    IF n = 0 THEN {<<>>}
    ELSE LET shorter == SeqsUpTo(S, n - 1)
         IN shorter \cup {Append(q, x) : q \in shorter, x \in S}

EntryLists == SeqsUpTo(EntryPool, MaxEntries)

KeyAB  == <<"a", "b">>
KeyADC == <<"a", "/", ":", "d", "c">>
KeyZZ  == <<"z", "z">>

Item(k) == [PrimaryKey |-> [Type |-> "TRACK", Key |-> k]]

PlaylistData(keys) == Some([Items |-> [i \in DOMAIN keys |-> Item(keys[i])]])

NodeKinds ==
    { [Type |-> "PLAYLIST", Name |-> <<"a">>, Playlist |-> PlaylistData(<<KeyAB, KeyZZ, KeyADC>>)],
      [Type |-> "PLAYLIST", Name |-> <<"a">>, Playlist |-> PlaylistData(<<KeyZZ>>)],
      [Type |-> "PLAYLIST", Name |-> <<"A">>, Playlist |-> PlaylistData(<<KeyADC, KeyAB, KeyAB>>)],
      [Type |-> "FOLDER",   Name |-> <<"a">>, Playlist |-> PlaylistData(<<KeyAB>>)],
      [Type |-> "PLAYLIST", Name |-> <<"b">>, Playlist |-> None] }

RootKinds ==
    { [Type |-> "FOLDER",   Name |-> RootName, Playlist |-> None],
      [Type |-> "FOLDER",   Name |-> <<>>,     Playlist |-> None],
      [Type |-> "PLAYLIST", Name |-> <<"a">>,  Playlist |-> PlaylistData(<<>>)] }

\* tree shapes: a shape is the sequence of the shapes of its subnodes
Leaf == <<>>
Shapes ==
    { Leaf, <<Leaf>>, <<Leaf, Leaf>>, <<<<Leaf>>>>, <<<<Leaf>>, Leaf>> }

RECURSIVE TreesOf(_, _)
RECURSIVE ForestsOf(_)

\* the sequences of trees of the given shapes
ForestsOf(shapes) ==
    IF shapes = <<>> THEN {<<>>}
    ELSE {<<h>> \o t : h \in TreesOf(Head(shapes), NodeKinds), t \in ForestsOf(Tail(shapes))}

\* the trees of a shape, the root node taken from kinds
TreesOf(shape, kinds) ==
    { [Type |-> k.Type, Name |-> k.Name, Playlist |-> k.Playlist, Subnodes |-> subs] :
        k \in kinds, subs \in ForestsOf(shape) }

Trees == UNION {TreesOf(sh, RootKinds) : sh \in Shapes}

MkDoc(entries, tree) ==
    [Version |-> "19", Collection |-> [Tracks |-> entries], Playlists |-> [Node |-> tree]]

Documents == {MkDoc(es, t) : es \in EntryLists, t \in Trees}

EmptyDoc == MkDoc(<<>>, [Type |-> "FOLDER", Name |-> RootName, Playlist |-> None, Subnodes |-> <<>>])

SmallDocuments ==
    { EmptyDoc,
      MkDoc(<<CHOOSE e \in EntryPool : e.Title = "t1">>,
            [Type |-> "FOLDER", Name |-> RootName, Playlist |-> None,
             Subnodes |-> <<[Type |-> "PLAYLIST", Name |-> <<"a">>,
                             Playlist |-> PlaylistData(<<KeyAB, KeyZZ>>), Subnodes |-> <<>>],
                            [Type |-> "PLAYLIST", Name |-> <<"A">>,
                             Playlist |-> PlaylistData(<<>>), Subnodes |-> <<>>]>>]) }

QueryKeys  == {KeyAB, KeyADC, KeyZZ}
QueryNames == {<<"a">>, <<"A">>, <<"b">>}
QueryPaths == {<<"a">>, <<"a", "/", "a">>, <<"a", "/", "A">>, <<"b", "/", "a">>}

-----------------------------------------------------------------------------
(* Direct use of the parser and of the index it returns *)

NoOut   == [op |-> "none", arg |-> NoPath, coll |-> None, err |-> "nil", opened |-> FALSE]
NoQuery == [op |-> "none", arg |-> <<>>, res |-> NilIdx]

NoRet   == [op |-> "none", arg |-> <<>>, panic |-> FALSE, val |-> <<>>]

LoaderIdle ==
    /\ tc = None /\ tcLoaded = FALSE /\ parseCount = 0 /\ calls = 0
    /\ ret = NoRet /\ alive = TRUE

ConcIdle == pc = <<>> /\ seen = <<>>

PureIdle == loc = Loc(<<>>, <<>>, <<>>) /\ loc2 = Loc(<<>>, <<>>, <<>>) /\ res = [op |-> "none"]

\* either any state of the file system with a small document, or one
\* well-formed catalog at an explicit path holding any document
Init ==
    /\ \/ /\ home \in BOOLEAN
          /\ fs \in [Paths -> FileStates]
          /\ doc \in SmallDocuments
       \/ /\ home = TRUE
          /\ fs = [p \in Paths |-> IF p = OtherPath THEN "ok" ELSE "absent"]
          /\ doc \in Documents
    /\ out = NoOut
    /\ query = NoQuery
    /\ LoaderIdle /\ ConcIdle /\ PureIdle

CallParseCollection ==
    /\ out' = [op |-> "ParseCollection", arg |-> NoPath] @@ ParseCollection
    /\ query' = NoQuery
    /\ UNCHANGED <<envVars, loaderVars, concVars, pureVars>>

CallParseCollectionFromPath ==
    \E path \in Paths :
        /\ out' = [op |-> "ParseCollectionFromPath", arg |-> path] @@ ParseCollectionFromPath(path)
        /\ query' = NoQuery
        /\ UNCHANGED <<envVars, loaderVars, concVars, pureVars>>

CallGetTrackByKey ==
    /\ out.coll # None
    /\ \E key \in QueryKeys :
          query' = [op |-> "GetTrackByKey", arg |-> key, res |-> GetTrackByKey(out.coll[1], key)]
    /\ UNCHANGED <<envVars, out, loaderVars, concVars, pureVars>>

CallGetPlaylistByName ==
    /\ out.coll # None
    /\ \E name \in QueryNames :
          query' = [op |-> "GetPlaylistByName", arg |-> name,
                    res |-> GetPlaylistByName(out.coll[1], name)]
    /\ UNCHANGED <<envVars, out, loaderVars, concVars, pureVars>>

CallGetPlaylistByPath ==
    /\ out.coll # None
    /\ \E path \in QueryPaths :
          query' = [op |-> "GetPlaylistByPath", arg |-> path,
                    res |-> GetPlaylistByPath(out.coll[1], path)]
    /\ UNCHANGED <<envVars, out, loaderVars, concVars, pureVars>>

Next ==
    \/ CallParseCollection
    \/ CallParseCollectionFromPath
    \/ CallGetTrackByKey
    \/ CallGetPlaylistByName
    \/ CallGetPlaylistByPath

Spec == Init /\ [][Next]_vars

-----------------------------------------------------------------------------
(* Properties of the index built by a direct parse *)

Parsed == out.coll # None

Index == out.coll[1]

Entries == doc.Collection.Tracks

KeyOf(l) == l.Volume \o l.Dir \o l.File

\* C3: for a well-formed document with N entries the index has exactly N
\* tracks, the i-th one converted from the i-th entry, also when entries share
\* a primary key
C3_TracksMirrorEntries ==
    Parsed =>
        /\ Len(Index.Tracks) = Len(Entries)
        /\ \A i \in DOMAIN Entries :
              LET t == Index.Tracks[i]
                  e == Entries[i]
              IN /\ t.Title = e.Title
                 /\ t.BPM = e.Bpm
                 /\ t.FileName = e.Location.File
                 /\ t.Volume = e.Location.Volume
                 /\ t.PrimaryKey = KeyOf(e.Location)
                 /\ t.FilePath = buildFilePath(e.Location)

C3_Witness ==
    /\ Parsed
    /\ Len(Entries) = 2
    /\ Len(Index.Tracks) = 2
    /\ Index.Tracks[1].PrimaryKey = Index.Tracks[2].PrimaryKey
    /\ Index.Tracks[1].Title # Index.Tracks[2].Title

\* C5 as claimed: no two tracks of an index share a primary key, looking up a
\* track's key returns that track, and a key no track carries is not found
C5_KeyIdentifiesTrack ==
    Parsed =>
        /\ \A i, j \in DOMAIN Index.Tracks :
              i # j => Index.Tracks[i].PrimaryKey # Index.Tracks[j].PrimaryKey
        /\ \A i \in DOMAIN Index.Tracks :
              GetTrackByKey(Index, Index.Tracks[i].PrimaryKey) = i
        /\ \A k \in QueryKeys :
              (\A i \in DOMAIN Index.Tracks : Index.Tracks[i].PrimaryKey # k)
                  => GetTrackByKey(Index, k) = NilIdx

\* the position of the last track carrying key k, NilIdx when there is none
LastWith(k) ==
    LET S == {i \in DOMAIN Index.Tracks : Index.Tracks[i].PrimaryKey = k}
    IN IF S = {} THEN NilIdx ELSE CHOOSE i \in S : \A j \in S : j <= i

\* C5 amended: looking up a key returns the last track, in document order,
\* that carries it (the track itself when no later track shares its key), and
\* a key no track carries is not found
C5_LookupReturnsLast ==
    /\ Parsed =>
          /\ \A i \in DOMAIN Index.Tracks :
                GetTrackByKey(Index, Index.Tracks[i].PrimaryKey)
                    = LastWith(Index.Tracks[i].PrimaryKey)
          /\ \A k \in QueryKeys : GetTrackByKey(Index, k) = LastWith(k)
    /\ (Parsed /\ query.op = "GetTrackByKey") => query.res = LastWith(query.arg)

C5_Witness ==
    /\ Parsed
    /\ Len(Index.Tracks) = 2
    /\ Index.Tracks[1].PrimaryKey = KeyAB
    /\ Index.Tracks[2].PrimaryKey = KeyAB
    /\ query.op = "GetTrackByKey" /\ query.arg = KeyAB /\ query.res = 2

\* the addresses of the nodes of a tree: the root is <<>>, the i-th subnode of
\* the node at a is Append(a, i)
RECURSIVE Addrs(_)
Addrs(node) ==
    {<<>>} \cup UNION { {<<i>> \o a : a \in Addrs(node.Subnodes[i])} : i \in DOMAIN node.Subnodes }

RECURSIVE NodeAt(_, _)
NodeAt(node, a) == IF a = <<>> THEN node ELSE NodeAt(node.Subnodes[Head(a)], Tail(a))

\* a comes before b in the pre-order listing: a is a proper ancestor of b, or
\* at the first place they part a takes the earlier sibling
Before(a, b) ==
    \/ Len(a) < Len(b) /\ SubSeq(b, 1, Len(a)) = a
    \/ \E i \in 1..Len(a) :
          /\ i <= Len(b)
          /\ SubSeq(a, 1, i - 1) = SubSeq(b, 1, i - 1)
          /\ a[i] < b[i]

Tree == doc.Playlists.Node

\* the nodes extractPlaylists emits a playlist for
Emitted == {a \in Addrs(Tree) : NodeAt(Tree, a).Type = "PLAYLIST" /\ NodeAt(Tree, a).Playlist # None}

\* the place of the node at a among the emitted nodes, in pre-order
Rank(a) == Cardinality({b \in Emitted : Before(b, a)}) + 1

ItemKeys(node) == [i \in DOMAIN node.Playlist[1].Items |-> node.Playlist[1].Items[i].PrimaryKey.Key]

\* the positions of the tracks the keys resolve to, unresolved keys skipped
RECURSIVE ResolvedOf(_)
ResolvedOf(keys) ==
    IF keys = <<>> THEN <<>>
    ELSE (IF LastWith(Head(keys)) = NilIdx THEN <<>> ELSE <<LastWith(Head(keys))>>)
         \o ResolvedOf(Tail(keys))

\* C6: a playlist's key list is the authored item keys in document order,
\* resolved or not; its track list is the subsequence of those keys the
\* lookup holds, each track carrying the key that refers to it
C6_KeysKeptTracksResolved ==
    Parsed =>
        /\ \A a \in Emitted :
              /\ Rank(a) \in DOMAIN Index.Playlists
              /\ Index.Playlists[Rank(a)].TrackKeys = ItemKeys(NodeAt(Tree, a))
        /\ \A n \in DOMAIN Index.Playlists :
              LET pl == Index.Playlists[n]
              IN /\ pl.Tracks = ResolvedOf(pl.TrackKeys)
                 /\ Len(pl.Tracks) <= Len(pl.TrackKeys)
                 /\ \A i \in DOMAIN pl.Tracks :
                       /\ pl.Tracks[i] \in DOMAIN Index.Tracks
                       /\ Index.Tracks[pl.Tracks[i]].PrimaryKey \in
                              {pl.TrackKeys[j] : j \in DOMAIN pl.TrackKeys}

C6_Witness ==
    /\ Parsed
    /\ \E n \in DOMAIN Index.Playlists :
          /\ Index.Playlists[n].TrackKeys = <<KeyAB, KeyZZ, KeyADC>>
          /\ Len(Index.Playlists[n].Tracks) = 2

\* C7: the playlist sequence lists the playlist nodes in pre-order: a node
\* before its descendants, an earlier sibling's subtree before a later one's
C7_PreOrder ==
    Parsed =>
        /\ Len(Index.Playlists) = Cardinality(Emitted)
        /\ \A a \in Emitted :
              /\ Rank(a) \in DOMAIN Index.Playlists
              /\ Index.Playlists[Rank(a)].Name = NodeAt(Tree, a).Name
              /\ Index.Playlists[Rank(a)].TrackKeys = ItemKeys(NodeAt(Tree, a))

C7_Witness ==
    /\ Parsed
    /\ Emitted = {<<>>, <<1>>, <<1, 1>>, <<2>>}
    /\ Index.Playlists[2].Name = <<"a">>
    /\ Index.Playlists[3].Name = <<"A">>
    /\ Index.Playlists[4].TrackKeys = <<KeyZZ>>

\* C8: GetPlaylistByName returns the first playlist, in traversal order, whose
\* name is exactly the one asked for, and nil when there is none;
\* GetPlaylistByPath does the same on the path
C8_FirstExactMatch ==
    /\ (Parsed /\ query.op = "GetPlaylistByName") =>
          LET hits == {i \in DOMAIN Index.Playlists : Index.Playlists[i].Name = query.arg}
          IN IF hits = {} THEN query.res = NilIdx
             ELSE query.res \in hits /\ \A i \in hits : query.res <= i
    /\ (Parsed /\ query.op = "GetPlaylistByPath") =>
          LET hits == {i \in DOMAIN Index.Playlists : Index.Playlists[i].Path = query.arg}
          IN IF hits = {} THEN query.res = NilIdx
             ELSE query.res \in hits /\ \A i \in hits : query.res <= i

C8_Witness ==
    /\ Parsed
    /\ query.op = "GetPlaylistByName" /\ query.arg = <<"A">> /\ query.res = 2
    /\ Len(Index.Playlists) = 3
    /\ Index.Playlists[1].Name = <<"a">>
    /\ Index.Playlists[3].Name = <<"A">>

\* C10: a parse call returns either an index and no error or an error and no
\* index; an open failure and a decode failure give no index; with no
\* candidate catalog ParseCollection returns NotFound without opening a file
C10_AllOrNothing ==
    out.op # "none" =>
        /\ \/ out.coll # None /\ out.err = "nil"
           \/ out.coll = None /\ out.err \in {"ErrNotExist", "IOError", "DecodeError"}
        /\ out.op = "ParseCollectionFromPath" =>
              /\ out.opened
              /\ fs[out.arg] \in {"absent", "unreadable"} => out.err = "IOError"
              /\ fs[out.arg] = "malformed" => out.err = "DecodeError"
              /\ fs[out.arg] = "ok" => out.err = "nil"
        /\ out.op = "ParseCollection" =>
              /\ collectionLocation = NoPath =>
                    out.err = "ErrNotExist" /\ out.coll = None /\ ~out.opened
              /\ collectionLocation # NoPath =>
                    /\ out.opened
                    /\ (out.err = "nil") = (fs[collectionLocation] = "ok")
        /\ out.coll # None =>
              /\ Len(Index.Tracks) = Len(Entries)
              /\ DOMAIN Index.trackMap = {KeyOf(Entries[i].Location) : i \in DOMAIN Entries}
              /\ Len(Index.Playlists) = Cardinality(Emitted)

C10_Witness ==
    /\ out.op = "ParseCollection"
    /\ ~home
    /\ fs[CandidatePath(Versions[1])] = "ok"
    /\ out.err = "ErrNotExist"

-----------------------------------------------------------------------------
(* Lazy loader, one call after another *)

MaxCalls == 3

\* byte order of the characters that occur in names, for sort.Strings
ByteOrder == <<" ", "$", ".", "/", ":", "A", "B", "D", "H", "M", "O", "R", "T",
               "a", "b", "c", "d", "f", "z">>

Byte(ch) == CHOOSE i \in DOMAIN ByteOrder : ByteOrder[i] = ch

\* a < b for Go strings
RECURSIVE StringLess(_, _)
StringLess(a, b) ==
    IF b = <<>> THEN FALSE
    ELSE IF a = <<>> THEN TRUE
    ELSE IF Head(a) # Head(b) THEN Byte(Head(a)) < Byte(Head(b))
    ELSE StringLess(Tail(a), Tail(b))

RECURSIVE insertSorted(_, _)
insertSorted(sorted, x) ==
    IF sorted = <<>> THEN <<x>>
    ELSE IF StringLess(x, Head(sorted)) THEN <<x>> \o sorted
    ELSE <<Head(sorted)>> \o insertSorted(Tail(sorted), x)

\* sort.Strings
RECURSIVE sortStrings(_)
sortStrings(names) ==
    IF names = <<>> THEN <<>>
    ELSE insertSorted(sortStrings(Tail(names)), Head(names))

InitLoader ==
    /\ home \in BOOLEAN
    /\ fs \in [Paths -> FileStates]
    /\ doc \in SmallDocuments
    /\ out = NoOut
    /\ query = NoQuery
    /\ LoaderIdle /\ ConcIdle /\ PureIdle

\* what tc is once the "if !tcLoaded" block of a loader-facing function has run
loadedTc == IF ~tcLoaded THEN ParseCollection.coll ELSE tc

\* a nil tc makes the function panic on tc.Playlists; the caller may recover
Returns(op, arg, t, val) ==
    /\ calls' = calls + 1
    /\ IF t = None
       THEN /\ ret' = [op |-> op, arg |-> arg, panic |-> TRUE, val |-> <<>>]
            /\ alive' \in BOOLEAN
       ELSE /\ ret' = [op |-> op, arg |-> arg, panic |-> FALSE, val |-> val]
            /\ alive' = TRUE

\* variant: a failed parse leaves tcLoaded unset
GetPlaylists_retry ==
    /\ alive /\ calls < MaxCalls
    /\ \E t \in {loadedTc} :
          /\ tc' = t
          /\ tcLoaded' = (t # None)
          /\ parseCount' = IF ~tcLoaded THEN parseCount + 1 ELSE parseCount
          /\ Returns("GetPlaylists", <<>>, t, IF t = None THEN <<>> ELSE t[1].Playlists)
    /\ UNCHANGED <<envVars, parseVars, concVars, pureVars>>

GetPlaylists ==
    /\ alive /\ calls < MaxCalls
    /\ \E t \in {loadedTc} :
          /\ tc' = t
          /\ tcLoaded' = TRUE
          /\ parseCount' = IF ~tcLoaded THEN parseCount + 1 ELSE parseCount
          /\ Returns("GetPlaylists", <<>>, t, IF t = None THEN <<>> ELSE t[1].Playlists)
    /\ UNCHANGED <<envVars, parseVars, concVars, pureVars>>

\* calls GetPlaylists, then copies and sorts the names
GetSortedPlaylistNames ==
    /\ alive /\ calls < MaxCalls
    /\ \E t \in {loadedTc} :
          /\ tc' = t
          /\ tcLoaded' = TRUE
          /\ parseCount' = IF ~tcLoaded THEN parseCount + 1 ELSE parseCount
          /\ Returns("GetSortedPlaylistNames", <<>>, t,
                     IF t = None THEN <<>>
                     ELSE sortStrings([i \in DOMAIN t[1].Playlists |-> t[1].Playlists[i].Name]))
    /\ UNCHANGED <<envVars, parseVars, concVars, pureVars>>

\* val is the number of playlists printed
LoadCollection ==
    /\ alive /\ calls < MaxCalls
    /\ \E t \in {loadedTc} :
          /\ tc' = t
          /\ tcLoaded' = TRUE
          /\ parseCount' = IF ~tcLoaded THEN parseCount + 1 ELSE parseCount
          /\ Returns("LoadCollection", <<>>, t, IF t = None THEN 0 ELSE Len(t[1].Playlists))
    /\ UNCHANGED <<envVars, parseVars, concVars, pureVars>>

\* the package-level GetPlaylistByName; val is the position of the playlist
LoaderGetPlaylistByName ==
    /\ alive /\ calls < MaxCalls
    /\ \E name \in QueryNames :
          \E t \in {loadedTc} :
             /\ tc' = t
             /\ tcLoaded' = TRUE
             /\ parseCount' = IF ~tcLoaded THEN parseCount + 1 ELSE parseCount
             /\ Returns("GetPlaylistByName", name, t,
                        IF t = None THEN NilIdx ELSE GetPlaylistByName(t[1], name))
    /\ UNCHANGED <<envVars, parseVars, concVars, pureVars>>

NextLoader ==
    \/ GetPlaylists
    \/ GetSortedPlaylistNames
    \/ LoadCollection
    \/ LoaderGetPlaylistByName

SpecLoader == InitLoader /\ [][NextLoader]_vars

\* C1: over any sequence of loader-facing calls ParseCollection runs exactly
\* once, in the first call; later calls reuse the cached outcome, a failure
\* included
C1_ParsedOnce ==
    /\ calls = 0 => parseCount = 0 /\ ~tcLoaded
    /\ calls > 0 => parseCount = 1 /\ tcLoaded /\ tc = ParseCollection.coll

C1_Witness ==
    /\ calls >= 2
    /\ tc = None
    /\ ret.panic
    /\ parseCount = 1

-----------------------------------------------------------------------------
(* Lazy loader, callers running GetPlaylists concurrently *)

Callers == {"c1", "c2"}

InitConc ==
    /\ home \in BOOLEAN
    /\ fs \in [Paths -> FileStates]
    /\ doc \in SmallDocuments
    /\ out = NoOut
    /\ query = NoQuery
    /\ LoaderIdle /\ PureIdle
    /\ pc = [c \in Callers |-> "check"]
    /\ seen = [c \in Callers |-> [sawLoaded |-> FALSE, parsed |-> None, got |-> None]]

\* "if !tcLoaded": an unsynchronised read, which may miss another caller's write
Check(c) ==
    /\ alive /\ pc[c] = "check"
    /\ \E v \in {tcLoaded, FALSE} :
          /\ pc' = [pc EXCEPT ![c] = IF v THEN "read" ELSE "parse"]
          /\ seen' = [seen EXCEPT ![c].sawLoaded = v]
    /\ UNCHANGED <<envVars, parseVars, loaderVars, pureVars>>

\* the call of ParseCollection
Parse(c) ==
    /\ alive /\ pc[c] = "parse"
    /\ seen' = [seen EXCEPT ![c].parsed = ParseCollection.coll]
    /\ parseCount' = parseCount + 1
    /\ pc' = [pc EXCEPT ![c] = "store"]
    /\ UNCHANGED <<envVars, parseVars, tc, tcLoaded, calls, ret, alive, pureVars>>

\* "tc, _ = ..."
Store(c) ==
    /\ alive /\ pc[c] = "store"
    /\ tc' = seen[c].parsed
    /\ pc' = [pc EXCEPT ![c] = "flag"]
    /\ UNCHANGED <<envVars, parseVars, tcLoaded, parseCount, calls, ret, alive, seen, pureVars>>

\* "tcLoaded = true"
Flag(c) ==
    /\ alive /\ pc[c] = "flag"
    /\ tcLoaded' = TRUE
    /\ pc' = [pc EXCEPT ![c] = "read"]
    /\ UNCHANGED <<envVars, parseVars, tc, parseCount, calls, ret, alive, seen, pureVars>>

\* "return tc.Playlists": a caller that did not write tc itself reads it
\* unsynchronised and may still see nil; a nil tc panics
Read(c) ==
    /\ alive /\ pc[c] = "read"
    /\ \E t \in (IF seen[c].sawLoaded THEN {tc, None} ELSE {tc}) :
          /\ seen' = [seen EXCEPT ![c].got = IF t = None THEN <<"panic">>
                                              ELSE <<t[1].Playlists>>]
          /\ alive' \in (IF t = None THEN BOOLEAN ELSE {TRUE})
    /\ pc' = [pc EXCEPT ![c] = "done"]
    /\ calls' = calls + 1
    /\ UNCHANGED <<envVars, parseVars, tc, tcLoaded, parseCount, ret, pureVars>>

NextConc == \E c \in Callers : Check(c) \/ Parse(c) \/ Store(c) \/ Flag(c) \/ Read(c)

SpecConc == InitConc /\ [][NextConc]_vars

\* C2 as claimed: with concurrent first callers one parse runs, all callers
\* get the same outcome, and a caller that saw the flag set sees the completed
\* index
C2_SingleFlight ==
    /\ parseCount <= 1
    /\ \A c, d \in Callers : (pc[c] = "done" /\ pc[d] = "done") => seen[c].got = seen[d].got
    /\ \A c \in Callers :
          (pc[c] = "done" /\ seen[c].sawLoaded) =>
              seen[c].got = (IF ParseCollection.coll = None THEN <<"panic">>
                             ELSE <<ParseCollection.coll[1].Playlists>>)

-----------------------------------------------------------------------------
(* buildPrimaryKey on pairs of locations *)

MaxKeyPart == 1

KeyParts == SeqsUpTo({"a", "b"}, MaxKeyPart)

KeyLocs == {Loc(v, d, f) : v \in KeyParts, d \in KeyParts, f \in KeyParts}

NoRes == [op |-> "none", a |-> <<>>, b |-> <<>>]

InitKey ==
    /\ home = TRUE
    /\ fs = [p \in Paths |-> "absent"]
    /\ doc = EmptyDoc
    /\ out = NoOut
    /\ query = NoQuery
    /\ LoaderIdle /\ ConcIdle
    /\ loc \in KeyLocs
    /\ loc2 \in KeyLocs
    /\ res = NoRes

ApplyBuildPrimaryKey ==
    /\ res.op = "none"
    /\ res' = [op |-> "buildPrimaryKey", a |-> buildPrimaryKey(loc), b |-> buildPrimaryKey(loc2)]
    /\ UNCHANGED <<envVars, parseVars, loaderVars, concVars, loc, loc2>>

NextKey == ApplyBuildPrimaryKey

SpecKey == InitKey /\ [][NextKey]_vars

\* the key is volume, then dir, then file, with nothing in between
IsConcat(k, l) ==
    /\ Len(k) = Len(l.Volume) + Len(l.Dir) + Len(l.File)
    /\ SubSeq(k, 1, Len(l.Volume)) = l.Volume
    /\ SubSeq(k, Len(l.Volume) + 1, Len(l.Volume) + Len(l.Dir)) = l.Dir
    /\ SubSeq(k, Len(l.Volume) + Len(l.Dir) + 1, Len(k)) = l.File

DifferingParts(l, m) ==
    Cardinality({f \in {"Volume", "Dir", "File"} : l[f] # m[f]})

\* C4 as claimed: the key is the plain concatenation, equal triples give equal
\* keys, and triples that differ in any component give different keys
C4_Injective ==
    res.op = "buildPrimaryKey" =>
        /\ IsConcat(res.a, loc) /\ IsConcat(res.b, loc2)
        /\ loc = loc2 => res.a = res.b
        /\ loc # loc2 => res.a # res.b

\* C4 amended: the key is the plain concatenation, equal triples give equal
\* keys, and triples that differ in exactly one component give different keys
C4_ConcatOnly ==
    res.op = "buildPrimaryKey" =>
        /\ IsConcat(res.a, loc) /\ IsConcat(res.b, loc2)
        /\ loc = loc2 => res.a = res.b
        /\ DifferingParts(loc, loc2) = 1 => res.a # res.b

C4_Witness ==
    /\ res.op = "buildPrimaryKey"
    /\ loc = Loc(<<"a">>, <<"b">>, <<>>)
    /\ loc2 = Loc(<<"a">>, <<"b">>, <<"a">>)
    /\ res.a = <<"a", "b">>
    /\ res.b = <<"a", "b", "a">>

-----------------------------------------------------------------------------
(* buildFilePath on locations *)

MaxDirPieces == 3

Backup     == <<"B", "a", "c", "k", "u", "p">>
MusicHouse == <<"/", ":", "M", "u", "s", "i", "c", "/", ":", "H", "o", "u", "s", "e">>
TrackMp3   == <<"t", "r", "a", "c", "k", ".", "m", "p", "3">>
BMp3       == <<"b", ".", "m", "p", "3">>

DirPieces == {<<"/", ":">>, <<"A">>, <<"/">>, <<".", ".">>, <<":">>}

RECURSIVE Concats(_, _)
Concats(S, n) ==
    IF n = 0 THEN {<<>>}
    ELSE LET shorter == Concats(S, n - 1)
         IN shorter \cup {q \o x : q \in shorter, x \in S}

PathVolumes == {<<>>, MacintoshHD, Colon, Backup, <<"m", "a", "c", "i", "n", "t", "o", "s", "h", " ", "h", "d">>, <<".", ".">>}
PathDirs    == Concats(DirPieces, MaxDirPieces) \cup {MusicHouse}
PathFiles   == {<<>>, BMp3, TrackMp3, <<".", ".">>}

PathLocs == {Loc(v, d, f) : v \in PathVolumes, d \in PathDirs, f \in PathFiles}

InitPath ==
    /\ home = TRUE
    /\ fs = [p \in Paths |-> "absent"]
    /\ doc = EmptyDoc
    /\ out = NoOut
    /\ query = NoQuery
    /\ LoaderIdle /\ ConcIdle
    /\ loc \in PathLocs
    /\ loc2 = Loc(<<>>, <<>>, <<>>)
    /\ res = NoRes

ApplyBuildFilePath ==
    /\ res.op = "none"
    /\ res' = [op |-> "buildFilePath", a |-> buildFilePath(loc), b |-> <<>>]
    /\ UNCHANGED <<envVars, parseVars, loaderVars, concVars, loc, loc2>>

NextPath == ApplyBuildFilePath

SpecPath == InitPath /\ [][NextPath]_vars

\* the directory with every "/:" turned into "/" and one leading "/" removed
RECURSIVE Translated(_)
Translated(d) ==
    IF Len(d) >= 2 /\ d[1] = "/" /\ d[2] = ":" THEN Sep \o Translated(SubSeq(d, 3, Len(d)))
    ELSE IF d = <<>> THEN <<>>
    ELSE <<d[1]>> \o Translated(Tail(d))

NativeDir(d) ==
    LET t == Translated(d) IN IF t # <<>> /\ t[1] = "/" THEN Tail(t) ELSE t

\* the names of a path, split at "/", empty names dropped
RECURSIVE NamesOf(_, _)
NamesOf(s, cur) ==
    IF s = <<>> THEN (IF cur = <<>> THEN <<>> ELSE <<cur>>)
    ELSE IF Head(s) = "/" THEN (IF cur = <<>> THEN <<>> ELSE <<cur>>) \o NamesOf(Tail(s), <<>>)
    ELSE NamesOf(Tail(s), Append(cur, Head(s)))

\* where the names lead: "." stays, ".." goes up (not above the root)
RECURSIVE Walk(_, _, _)
Walk(names, at, rooted) ==
    IF names = <<>> THEN at
    ELSE LET n == Head(names)
         IN IF n = <<".">> THEN Walk(Tail(names), at, rooted)
            ELSE IF n = <<".", ".">>
                 THEN IF at # <<>> /\ at[Len(at)] # <<".", ".">>
                      THEN Walk(Tail(names), SubSeq(at, 1, Len(at) - 1), rooted)
                      ELSE IF rooted THEN Walk(Tail(names), at, rooted)
                      ELSE Walk(Tail(names), Append(at, n), rooted)
            ELSE Walk(Tail(names), Append(at, n), rooted)

IsRooted(s) == s # <<>> /\ s[1] = "/"

\* the file a path string names
Denotes(s) == [rooted |-> IsRooted(s), at |-> Walk(NamesOf(s, <<>>), <<>>, IsRooted(s))]

\* the parts joined by "/", empty parts left out
RECURSIVE Under(_)
Under(parts) ==
    IF parts = <<>> THEN <<>>
    ELSE IF Head(parts) = <<>> THEN Under(Tail(parts))
    ELSE IF Under(Tail(parts)) = <<>> THEN Head(parts)
    ELSE Head(parts) \o Sep \o Under(Tail(parts))

PlainName(s) == s # <<>> /\ s # <<".">> /\ s # <<".", ".">> /\ \A i \in DOMAIN s : s[i] # "/"

NoDotDot(s) == \A i \in DOMAIN NamesOf(s, <<>>) : NamesOf(s, <<>>)[i] # <<".", ".">>

\* C9 as claimed: buildFilePath always returns a path; for volume
\* "Macintosh HD" or ":" the path is rooted at "/", for any other non-empty
\* volume it lies under "/Volumes/<volume>", for an empty volume it has no
\* root; the three examples of the specification come out as written
C9_LiteralRoots ==
    res.op = "buildFilePath" =>
        LET p == res.a
        IN /\ (loc.Volume = MacintoshHD \/ loc.Volume = Colon) => IsRooted(p)
           /\ (loc.Volume # <<>> /\ loc.Volume # MacintoshHD /\ loc.Volume # Colon) =>
                 HasPrefix(p \o Sep, Volumes \o Sep \o loc.Volume \o Sep)
           /\ loc.Volume = <<>> => ~IsRooted(p)
           /\ (loc = Loc(MacintoshHD, MusicHouse, TrackMp3)) => p = <<"/", "M", "u", "s", "i", "c", "/", "H", "o", "u", "s", "e", "/", "t", "r", "a", "c", "k", ".", "m", "p", "3">>
           /\ (loc = Loc(Backup, MusicHouse, TrackMp3)) => p = <<"/", "V", "o", "l", "u", "m", "e", "s", "/", "B", "a", "c", "k", "u", "p", "/", "M", "u", "s", "i", "c", "/", "H", "o", "u", "s", "e", "/", "t", "r", "a", "c", "k", ".", "m", "p", "3">>
           /\ (loc = Loc(<<>>, <<"/", ":", "A">>, BMp3)) => p = <<"A", "/", "b", ".", "m", "p", "3">>

PathChars ==
    {ByteOrder[i] : i \in DOMAIN ByteOrder}
        \cup {"V", "o", "l", "u", "m", "e", "s", "i", "n", "t", "h", "k", "p", "r", "3"}

\* C9 amended: buildFilePath always returns a path, which names the file
\* reached from "/" (volume "Macintosh HD" or ":"), from "/Volumes/<volume>"
\* (any other non-empty volume) or from nowhere (empty volume) through the
\* translated directory and the file name, "." and ".." names resolved; it
\* starts with "/Volumes/<volume>/" when the volume is a plain name and no
\* ".." occurs, and with an empty volume it is rooted exactly when the
\* translated directory and file are; the three examples come out as written
C9_RootedByVolume ==
    res.op = "buildFilePath" =>
        LET dir == NativeDir(loc.Dir)
            p   == res.a
        IN /\ p \in Seq(PathChars)
           /\ (loc.Volume = MacintoshHD \/ loc.Volume = Colon) =>
                 /\ IsRooted(p)
                 /\ Denotes(p) = Denotes(Sep \o Under(<<dir, loc.File>>))
           /\ (loc.Volume # <<>> /\ loc.Volume # MacintoshHD /\ loc.Volume # Colon) =>
                 /\ IsRooted(p)
                 /\ Denotes(p) = Denotes(Under(<<Volumes, loc.Volume, dir, loc.File>>))
                 /\ (PlainName(loc.Volume) /\ NoDotDot(dir) /\ NoDotDot(loc.File)) =>
                       HasPrefix(p \o Sep, Volumes \o Sep \o loc.Volume \o Sep)
           /\ loc.Volume = <<>> =>
                 /\ Denotes(p) = Denotes(Under(<<dir, loc.File>>))
                 /\ IsRooted(p) = IsRooted(Under(<<dir, loc.File>>))
           /\ (loc = Loc(MacintoshHD, MusicHouse, TrackMp3)) => p = <<"/", "M", "u", "s", "i", "c", "/", "H", "o", "u", "s", "e", "/", "t", "r", "a", "c", "k", ".", "m", "p", "3">>
           /\ (loc = Loc(Backup, MusicHouse, TrackMp3)) => p = <<"/", "V", "o", "l", "u", "m", "e", "s", "/", "B", "a", "c", "k", "u", "p", "/", "M", "u", "s", "i", "c", "/", "H", "o", "u", "s", "e", "/", "t", "r", "a", "c", "k", ".", "m", "p", "3">>
           /\ (loc = Loc(<<>>, <<"/", ":", "A">>, BMp3)) => p = <<"A", "/", "b", ".", "m", "p", "3">>

C9_Witness ==
    /\ res.op = "buildFilePath"
    /\ loc = Loc(Backup, MusicHouse, TrackMp3)
    /\ res.a = <<"/", "V", "o", "l", "u", "m", "e", "s", "/", "B", "a", "c", "k", "u", "p", "/", "M", "u", "s", "i", "c", "/", "H", "o", "u", "s", "e", "/", "t", "r", "a", "c", "k", ".", "m", "p", "3">>

-----------------------------------------------------------------------------
(* GetTracksByBPMRange on the index of a parsed catalog *)

\* variant: the bounds themselves are left out
RECURSIVE bpmRangeFrom_exclusive(_, _, _, _)
bpmRangeFrom_exclusive(tracks, minBPM, maxBPM, results) ==
    IF tracks = <<>> THEN results
    ELSE LET track == Head(tracks)
         IN bpmRangeFrom_exclusive(Tail(tracks), minBPM, maxBPM,
                IF track.BPM > minBPM /\ track.BPM < maxBPM
                THEN Append(results, track) ELSE results)

\* the loop of GetTracksByBPMRange over the remaining tracks
RECURSIVE bpmRangeFrom(_, _, _, _)
bpmRangeFrom(tracks, minBPM, maxBPM, results) ==
    IF tracks = <<>> THEN results
    ELSE LET track == Head(tracks)
         IN bpmRangeFrom(Tail(tracks), minBPM, maxBPM,
                IF track.BPM >= minBPM /\ track.BPM <= maxBPM
                THEN Append(results, track) ELSE results)

\* the result holds copies of the tracks
GetTracksByBPMRange(c, minBPM, maxBPM) == bpmRangeFrom(c.Tracks, minBPM, maxBPM, <<>>)

QueryBpms == {120, 124, 128}

FilterDocuments == {MkDoc(es, EmptyDoc.Playlists.Node) : es \in EntryLists}

InitFilter ==
    /\ home = TRUE
    /\ fs = [p \in Paths |-> IF p = OtherPath THEN "ok" ELSE "absent"]
    /\ doc \in FilterDocuments
    /\ out = NoOut
    /\ query = NoQuery
    /\ LoaderIdle /\ ConcIdle /\ PureIdle

CallGetTracksByBPMRange ==
    /\ out.coll # None
    /\ \E minBPM \in QueryBpms, maxBPM \in QueryBpms :
          query' = [op |-> "GetTracksByBPMRange", arg |-> <<minBPM, maxBPM>>,
                    res |-> GetTracksByBPMRange(out.coll[1], minBPM, maxBPM)]
    /\ UNCHANGED <<envVars, out, loaderVars, concVars, pureVars>>

NextFilter ==
    \/ CallParseCollectionFromPath
    \/ CallGetTracksByBPMRange

SpecFilter == InitFilter /\ [][NextFilter]_vars

InRange(t, lo, hi) == lo <= t.BPM /\ t.BPM <= hi

\* the positions, in increasing order, of the tracks with lo <= BPM <= hi
RangePositions(lo, hi) == {i \in DOMAIN Index.Tracks : InRange(Index.Tracks[i], lo, hi)}

\* C11: GetTracksByBPMRange(min, max) returns exactly the tracks with
\* min <= BPM <= max, in source track order; a track whose BPM is min or is
\* max is included, and the result is empty when min > max
C11_InclusiveRange ==
    (Parsed /\ query.op = "GetTracksByBPMRange") =>
        LET lo   == query.arg[1]
            hi   == query.arg[2]
            hits == RangePositions(lo, hi)
        IN /\ Len(query.res) = Cardinality(hits)
           /\ \A i \in hits :
                 query.res[Cardinality({j \in hits : j <= i})] = Index.Tracks[i]
           /\ \A i \in DOMAIN Index.Tracks :
                 (lo <= hi /\ (Index.Tracks[i].BPM = lo \/ Index.Tracks[i].BPM = hi)) =>
                     \E n \in DOMAIN query.res : query.res[n] = Index.Tracks[i]
           /\ lo > hi => query.res = <<>>

C11_Witness ==
    /\ Parsed
    /\ query.op = "GetTracksByBPMRange"
    /\ query.arg = <<120, 128>>
    /\ Len(Index.Tracks) = 2
    /\ Index.Tracks[1].BPM = 128
    /\ Index.Tracks[2].BPM = 120
    /\ query.res = Index.Tracks

-----------------------------------------------------------------------------
(* Which nodes of the tree yield a playlist *)

\* the nodes that carry playlist data, whatever their type
DataNodes == {a \in Addrs(Tree) : NodeAt(Tree, a).Playlist # None}

\* the nodes at or below a
Subtree(a) == {b \in Addrs(Tree) : Len(a) <= Len(b) /\ SubSeq(b, 1, Len(a)) = a}

\* the playlist at place i was made from node n
MadeFrom(i, n) ==
    /\ Index.Playlists[i].Name = n.Name
    /\ Index.Playlists[i].TrackKeys = ItemKeys(n)

\* C12 as stated: a node is emitted as a playlist if and only if it carries
\* playlist data, whatever its other attributes (its type among them) and
\* whether or not it has subnodes
C12_DataOnly ==
    Parsed =>
        /\ Len(Index.Playlists) = Cardinality(DataNodes)
        /\ \A a \in DataNodes :
              \E i \in DOMAIN Index.Playlists : MadeFrom(i, NodeAt(Tree, a))

\* C12: a node is emitted as a playlist if and only if its type is PLAYLIST
\* and it carries playlist data, whether or not it has subnodes; an emitted
\* node with subnodes is followed at once by all the playlists of its subtree,
\* and a node that is not emitted still passes on those of its subtree
C12_TypedDataAndDescent ==
    Parsed =>
        /\ DataNodes \ Emitted =
              {a \in DataNodes : NodeAt(Tree, a).Type # "PLAYLIST"}
        /\ \A a \in Addrs(Tree) :
              LET below == Subtree(a) \cap Emitted
                  first == Cardinality({b \in Emitted : Before(b, a)}) + 1
              IN /\ first + Cardinality(below) - 1 <= Len(Index.Playlists)
                 /\ a \in Emitted => MadeFrom(first, NodeAt(Tree, a))
                 /\ \A b \in below :
                       /\ Rank(b) \in first..(first + Cardinality(below) - 1)
                       /\ MadeFrom(Rank(b), NodeAt(Tree, b))
        /\ Len(Index.Playlists) = Cardinality(Emitted)

\* a playlist node with subnodes, one of them a folder that carries playlist
\* data and has a playlist child of its own
C12_Witness ==
    /\ Parsed
    /\ Len(Tree.Subnodes) = 2
    /\ Tree.Subnodes[1].Type = "FOLDER"
    /\ Tree.Subnodes[1].Playlist # None
    /\ Emitted = {<<>>, <<1, 1>>, <<2>>}
    /\ DataNodes = {<<>>, <<1>>, <<1, 1>>, <<2>>}
    /\ Len(Index.Playlists) = 3
    /\ Index.Playlists[2].TrackKeys = <<KeyZZ>>

-----------------------------------------------------------------------------
(* Playlist paths: trees whose nodes bear every sort of name *)

NamedKinds ==
    { [Type |-> "PLAYLIST", Name |-> <<>>,     Playlist |-> PlaylistData(<<>>)],
      [Type |-> "PLAYLIST", Name |-> RootName, Playlist |-> PlaylistData(<<>>)],
      [Type |-> "PLAYLIST", Name |-> <<"a">>,  Playlist |-> PlaylistData(<<>>)],
      [Type |-> "PLAYLIST", Name |-> <<"/">>,  Playlist |-> PlaylistData(<<>>)],
      [Type |-> "FOLDER",   Name |-> <<"b">>,  Playlist |-> None] }

RECURSIVE NamedTreesOf(_, _)
RECURSIVE NamedForestsOf(_)

NamedForestsOf(shapes) ==
    IF shapes = <<>> THEN {<<>>}
    ELSE {<<h>> \o t : h \in NamedTreesOf(Head(shapes), NamedKinds),
                       t \in NamedForestsOf(Tail(shapes))}

NamedTreesOf(shape, kinds) ==
    { [Type |-> k.Type, Name |-> k.Name, Playlist |-> k.Playlist, Subnodes |-> subs] :
        k \in kinds, subs \in NamedForestsOf(shape) }

NamedTrees == UNION {NamedTreesOf(sh, RootKinds) : sh \in Shapes}

NamedDocuments == {MkDoc(<<>>, t) : t \in NamedTrees}

InitTree ==
    /\ home = TRUE
    /\ fs = [p \in Paths |-> IF p = OtherPath THEN "ok" ELSE "absent"]
    /\ doc \in NamedDocuments
    /\ out = NoOut
    /\ query = NoQuery
    /\ LoaderIdle /\ ConcIdle /\ PureIdle

NextTree ==
    \/ CallParseCollectionFromPath
    \/ CallGetPlaylistByPath

SpecTree == InitTree /\ [][NextTree]_vars

Skipped(name) == name = <<>> \/ name = RootName

\* the names on the way from the root down to the node at a that add a segment
RECURSIVE Segments(_)
Segments(a) ==
    LET name  == NodeAt(Tree, a).Name
        above == IF a = <<>> THEN <<>> ELSE Segments(SubSeq(a, 1, Len(a) - 1))
    IN IF Skipped(name) THEN above ELSE Append(above, name)

\* the path C13 as stated gives the node at a: only the root can go without a
\* segment, every other node adds "/" and its name to its parent's path, or
\* is its name alone under an empty parent path
RECURSIVE StatedPath(_)
StatedPath(a) ==
    LET name == NodeAt(Tree, a).Name IN
    IF a = <<>> THEN (IF Skipped(name) THEN <<>> ELSE name)
    ELSE LET parent == StatedPath(SubSeq(a, 1, Len(a) - 1))
         IN IF parent = <<>> THEN name ELSE parent \o Sep \o name

\* C13 as stated: the root alone contributes no segment, every other node's
\* path is its parent's path plus "/" plus its own name (its name alone under
\* an empty parent path), and no path begins or ends with "/"
C13_OnlyRootSkipped ==
    Parsed =>
        \A a \in Emitted :
            LET path == Index.Playlists[Rank(a)].Path
            IN /\ path = StatedPath(a)
               /\ path # <<>> => path[1] # "/" /\ path[Len(path)] # "/"

\* C13: the path of a playlist is the names on the way from the root down to
\* its node, joined by "/", where every node whose name is empty or "$ROOT",
\* the root or not, contributes no segment; a path begins or ends with "/"
\* only where a contributing name does
C13_NamedSegmentsJoined ==
    Parsed =>
        \A a \in Emitted :
            LET path == Index.Playlists[Rank(a)].Path
                segs == Segments(a)
            IN /\ path = JoinSep(segs)
               /\ segs = <<>> => path = <<>>
               /\ (path # <<>> /\ path[1] = "/") => segs[1][1] = "/"
               /\ (path # <<>> /\ path[Len(path)] = "/") =>
                      segs[Len(segs)][Len(segs[Len(segs)])] = "/"

\* under the root marker a node named "$ROOT" with a child "a": the child's
\* path is "a"; the second playlist of the same tree sits at "/"
C13_Witness ==
    /\ Parsed
    /\ Tree.Name = RootName
    /\ Len(Tree.Subnodes) = 2
    /\ Tree.Subnodes[1].Name = RootName
    /\ Len(Tree.Subnodes[1].Subnodes) = 1
    /\ Tree.Subnodes[1].Subnodes[1].Name = <<"a">>
    /\ Tree.Subnodes[2].Name = <<"/">>
    /\ Len(Index.Playlists) = 3
    /\ Index.Playlists[1].Path = <<>>
    /\ Index.Playlists[2].Path = <<"a">>
    /\ Index.Playlists[3].Path = <<"/">>

-----------------------------------------------------------------------------
(* The loader-facing functions after a failed first load *)

\* the first load failed and the failure is cached
FailureCached == tcLoaded /\ tc = None

\* C14: once a failed first load is cached, every loader-facing call made
\* afterwards completes without a fault: GetPlaylists and
\* GetSortedPlaylistNames return an empty list, LoadCollection reports zero
\* playlists, GetPlaylistByName returns not-found
C14_NoFaultAfterFailedLoad ==
    (FailureCached /\ calls >= 2) =>
        /\ ~ret.panic
        /\ ret.op \in {"GetPlaylists", "GetSortedPlaylistNames"} => ret.val = <<>>
        /\ ret.op = "LoadCollection" => ret.val = 0
        /\ ret.op = "GetPlaylistByName" => ret.val = NilIdx

====
